---- MODULE Spec2Model ----
(***************************************************************************)
(* A model of the ray tracer in src/src/main.rs and src/src/color.rs.      *)
(*                                                                         *)
(* Numbers.  The program computes in f32 and f64.  The model computes in   *)
(* fixed point: the integer n stands for the number n / Unit, products     *)
(* and quotients are truncated toward zero, and the square root is the     *)
(* integer square root.  One extra value, NaN, stands for the IEEE         *)
(* not-a-number: every arithmetic operation propagates it, every ordered   *)
(* comparison with it is false, f32::max ignores it and a cast of it to    *)
(* u8 gives 0, as in Rust.  The model's numbers are bounded, so the        *)
(* infinities (reached in the program only by overflow) are not            *)
(* represented.                                                            *)
(***************************************************************************)
EXTENDS Integers, Sequences, FiniteSets

VARIABLES scene, x, y, pc, passed, puts,
          color, orig, clamps, rgba,
          call

vars == <<scene, x, y, pc, passed, puts, color, orig, clamps, rgba, call>>

----------------------------------------------------------------------------
(* Fixed-point numbers with NaN *)

Unit == 1000
NaN == 2000000000
Pi == 3142

IsNaN(a) == a = NaN

\* `let v = ...;`: F applied to the value v
Let(v, F(_)) == F(v)

\* integer division truncating toward zero, b > 0
TDiv(a, b) == IF a >= 0 THEN a \div b ELSE -((-a) \div b)

Add(a, b) == IF IsNaN(a) \/ IsNaN(b) THEN NaN ELSE a + b
Sub(a, b) == IF IsNaN(a) \/ IsNaN(b) THEN NaN ELSE a - b
Neg(a) == IF IsNaN(a) THEN NaN ELSE -a
Mul(a, b) == IF IsNaN(a) \/ IsNaN(b) THEN NaN ELSE TDiv(a * b, Unit)
\* 0/0 is NaN; x/0 with x # 0 is an infinity, which stands outside the
\* model's numbers (no division of the program below reaches it)
Div(a, b) ==
    IF IsNaN(a) \/ IsNaN(b) \/ b = 0 THEN NaN
    ELSE IF b > 0 THEN TDiv(a * Unit, b) ELSE TDiv((-a) * Unit, -b)

Lt(a, b) == ~IsNaN(a) /\ ~IsNaN(b) /\ a < b
Gt(a, b) == ~IsNaN(a) /\ ~IsNaN(b) /\ a > b
Le(a, b) == ~IsNaN(a) /\ ~IsNaN(b) /\ a <= b
Ge(a, b) == ~IsNaN(a) /\ ~IsNaN(b) /\ a >= b

\* f32::max: the other operand when one is NaN
FMax(a, b) == IF IsNaN(a) THEN b ELSE IF IsNaN(b) THEN a ELSE IF a > b THEN a ELSE b

RECURSIVE ISqrtIn(_, _, _)
ISqrtIn(n, lo, hi) ==
    IF lo >= hi THEN lo
    ELSE LET mid == (lo + hi + 1) \div 2
         IN IF mid * mid <= n THEN ISqrtIn(n, mid, hi) ELSE ISqrtIn(n, lo, mid - 1)

\* floor of the square root of the integer n, 0 <= n
ISqrt(n) == ISqrtIn(n, 0, 46340)

\* f64::sqrt: NaN for a negative operand
Sqrt(a) == IF IsNaN(a) \/ a < 0 THEN NaN ELSE ISqrt(a * Unit)

RECURSIVE Powi(_, _)
Powi(a, n) == IF n = 0 THEN Unit ELSE Mul(a, Powi(a, n - 1))

\* a conversion that rounds to the nearest byte instead of truncating
AsU8Round(a) ==
    IF IsNaN(a) THEN 0
    ELSE LET t == TDiv(2 * a + Unit, 2 * Unit)
         IN IF t < 0 THEN 0 ELSE IF t > 255 THEN 255 ELSE t

\* `as u8`: truncation toward zero, saturating at 0 and 255, NaN to 0
AsU8(a) ==
    IF IsNaN(a) THEN 0
    ELSE LET t == TDiv(a, Unit)
         IN IF t < 0 THEN 0 ELSE IF t > 255 THEN 255 ELSE t

----------------------------------------------------------------------------
(* cgmath vectors and points: triples of numbers *)

VAdd(u, v) == <<Add(u[1], v[1]), Add(u[2], v[2]), Add(u[3], v[3])>>
VSub(u, v) == <<Sub(u[1], v[1]), Sub(u[2], v[2]), Sub(u[3], v[3])>>
VNeg(u) == <<Neg(u[1]), Neg(u[2]), Neg(u[3])>>
VScale(u, s) == <<Mul(u[1], s), Mul(u[2], s), Mul(u[3], s)>>
VHasNaN(u) == IsNaN(u[1]) \/ IsNaN(u[2]) \/ IsNaN(u[3])

Dot(u, v) ==
    IF VHasNaN(u) \/ VHasNaN(v) THEN NaN
    ELSE TDiv(u[1] * v[1] + u[2] * v[2] + u[3] * v[3], Unit)

Magnitude2(u) == Dot(u, u)

Magnitude(u) ==
    IF VHasNaN(u) THEN NaN
    ELSE ISqrt(u[1] * u[1] + u[2] * u[2] + u[3] * u[3])

\* v / |v|: the zero vector gives 0/0 = NaN in every component
Normalize(u) ==
    Let(Magnitude(u), LAMBDA m : <<Div(u[1], m), Div(u[2], m), Div(u[3], m)>>)

----------------------------------------------------------------------------
(* color.rs *)

Color(r, g, b) == [red |-> r, green |-> g, blue |-> b]

\* a clamp that forgets the lower end of the range
ClampChannelUpper(c) == IF Gt(c, Unit) THEN Unit ELSE c

\* one channel of Color::clamp
ClampChannel(c) == IF Gt(c, Unit) THEN Unit ELSE IF Lt(c, 0) THEN 0 ELSE c

Clamp(c) == Color(ClampChannel(c.red), ClampChannel(c.green), ClampChannel(c.blue))

\* the three assert! lines of Color::to_rgba
ToRgbaAsserts(c) ==
    /\ Le(c.red, Unit) /\ Ge(c.red, 0)
    /\ Le(c.green, Unit) /\ Ge(c.red, 0)
    /\ Le(c.blue, Unit) /\ Ge(c.red, 0)

Alpha == 1

\* Color::to_rgba: a failed assertion aborts, else the four bytes
ToRgba(c) ==
    IF ~ToRgbaAsserts(c) THEN [abort |-> TRUE, px |-> <<0, 0, 0, 0>>]
    ELSE [abort |-> FALSE,
          px |-> <<AsU8(Mul(c.red, 255 * Unit)), AsU8(Mul(c.green, 255 * Unit)),
                   AsU8(Mul(c.blue, 255 * Unit)), Alpha>>]

ColorAdd(a, b) == Color(Add(a.red, b.red), Add(a.green, b.green), Add(a.blue, b.blue))
ColorAddScalar(a, s) == Color(Add(a.red, s), Add(a.green, s), Add(a.blue, s))
ColorScale(a, s) == Color(Mul(a.red, s), Mul(a.green, s), Mul(a.blue, s))
ColorMul(a, b) == Color(Mul(a.red, b.red), Mul(a.green, b.green), Mul(a.blue, b.blue))

----------------------------------------------------------------------------
(* main.rs: rays, spheres, lights, the scene *)

Ray(o, d) == [origin |-> o, direction |-> d]

\* tan(fov / 2) for the fields of view the model's scenes use, in degrees
FovAdjustment(fov) == IF fov = 90 THEN Unit ELSE IF fov = 60 THEN 577 ELSE NaN

\* Ray::create_prime
CreatePrime(px, py, sc) ==
    LET fov_adjustment == FovAdjustment(sc.fov)
        sensor_x ==
            Mul(Mul(Sub(Mul(Div(px * Unit + Unit \div 2, sc.width * Unit), 2 * Unit), Unit),
                    sc.aspect_ratio), fov_adjustment)
        sensor_y ==
            Mul(Sub(Unit, Mul(Div(py * Unit + Unit \div 2, sc.height * Unit), 2 * Unit)),
                fov_adjustment)
    IN Ray(<<0, 0, 0>>, Normalize(<<sensor_x, sensor_y, -Unit>>))

None == [some |-> FALSE, val |-> 0]
Some(v) == [some |-> TRUE, val |-> v]

\* an intersect that skips a root behind the origin and returns the far one
IntersectSkipsNegative(sphere, ray) ==
    Let(VSub(sphere.center, ray.origin), LAMBDA hypo :
    Let(Dot(hypo, ray.direction), LAMBDA adj :
    Let(Sub(Dot(hypo, hypo), Mul(adj, adj)), LAMBDA d :
    Let(Mul(sphere.radius, sphere.radius), LAMBDA radius_sq :
    Let(Sqrt(Sub(radius_sq, d)), LAMBDA thickness :
    Let(Sub(adj, thickness), LAMBDA t0 :
    Let(Add(adj, thickness), LAMBDA t1 :
        IF Gt(d, radius_sq) THEN None
        ELSE IF Lt(t0, 0) /\ Lt(t1, 0) THEN None
        ELSE Some(IF Lt(t0, 0) THEN t1 ELSE t0))))))))

\* Sphere::intersect
Intersect(sphere, ray) ==
    Let(VSub(sphere.center, ray.origin), LAMBDA hypo :
    Let(Dot(hypo, ray.direction), LAMBDA adj :
    Let(Sub(Dot(hypo, hypo), Mul(adj, adj)), LAMBDA d :
    Let(Mul(sphere.radius, sphere.radius), LAMBDA radius_sq :
    Let(Sqrt(Sub(radius_sq, d)), LAMBDA thickness :
    Let(Sub(adj, thickness), LAMBDA t0 :
    Let(Add(adj, thickness), LAMBDA t1 :
        IF Gt(d, radius_sq) THEN None
        ELSE IF Lt(t0, 0) /\ Lt(t1, 0) THEN None
        ELSE Some(IF Lt(t0, t1) THEN t0 ELSE t1))))))))

\* Sphere::surface_normal
SurfaceNormal(sphere, hit_point) == Normalize(VSub(hit_point, sphere.center))

\* Scene::new
NewScene(width, height, fov, objects, lights, shadow_bias) ==
    [width |-> width, height |-> height, fov |-> fov,
     aspect_ratio |-> Div(width * Unit, height * Unit),
     objects |-> objects, lights |-> lights, shadow_bias |-> shadow_bias]

\* the filter_map of Scene::trace: the collisions, in the order of the objects
RECURSIVE Collisions(_, _, _)
Collisions(objects, ray, i) ==
    IF i > Len(objects) THEN <<>>
    ELSE Let(Intersect(objects[i], ray), LAMBDA r :
         Let(Collisions(objects, ray, i + 1), LAMBDA rest :
             IF r.some THEN <<[distance |-> r.val, object |-> i]>> \o rest ELSE rest))

NoCollision == [panic |-> FALSE, some |-> FALSE, distance |-> 0, object |-> 0]
TracePanic == [panic |-> TRUE, some |-> FALSE, distance |-> 0, object |-> 0]

\* Iterator::min_by over the collisions from the i-th on, `best` the minimum so
\* far: a later element replaces it only when the comparison says Greater, and
\* partial_cmp(..).unwrap() panics when either distance is NaN
RECURSIVE MinBy(_, _, _)
MinBy(cs, best, i) ==
    IF i > Len(cs) THEN [panic |-> FALSE, some |-> TRUE,
                         distance |-> best.distance, object |-> best.object]
    ELSE IF IsNaN(best.distance) \/ IsNaN(cs[i].distance) THEN TracePanic
    ELSE MinBy(cs, IF best.distance > cs[i].distance THEN cs[i] ELSE best, i + 1)

\* Scene::trace
Trace(sc, ray) ==
    Let(Collisions(sc.objects, ray, 1), LAMBDA cs :
        IF cs = <<>> THEN NoCollision ELSE MinBy(cs, cs[1], 2))

DirectionalLight(direction, col, intensity) ==
    [kind |-> "DirectionalLight", direction |-> direction, position |-> <<0, 0, 0>>,
     color |-> col, intensity |-> intensity]

SphereLight(position, col, intensity) ==
    [kind |-> "SphereLight", direction |-> <<0, 0, 0>>, position |-> position,
     color |-> col, intensity |-> intensity]

\* a get_light whose point light is also lit by an occluder at exactly its distance
GetLightOccludedBelow(light, sc, hit_point) ==
    IF light.kind = "DirectionalLight" THEN
        Let(VNeg(light.direction), LAMBDA direction_to_light :
        Let(Ray(VAdd(hit_point, VScale(direction_to_light, sc.shadow_bias)),
                direction_to_light), LAMBDA shadow_ray :
        Let(Trace(sc, shadow_ray), LAMBDA shadow_intersect :
        Let(~shadow_intersect.some, LAMBDA in_light :
            [panic |-> shadow_intersect.panic,
             intensity |-> IF in_light THEN light.intensity ELSE 0,
             direction |-> direction_to_light]))))
    ELSE
        Let(Normalize(VSub(light.position, hit_point)), LAMBDA direction_to_light :
        Let(Ray(VAdd(hit_point, VScale(direction_to_light, sc.shadow_bias)),
                direction_to_light), LAMBDA shadow_ray :
        Let(Trace(sc, shadow_ray), LAMBDA shadow_intersect :
        Let(\/ ~shadow_intersect.some
            \/ Ge(shadow_intersect.distance, Magnitude(VSub(light.position, hit_point))),
            LAMBDA in_light :
            [panic |-> shadow_intersect.panic,
             intensity |-> IF in_light
                           THEN Div(light.intensity,
                                    Mul(Mul(4 * Unit, Pi),
                                        Magnitude2(VSub(light.position, hit_point))))
                           ELSE 0,
             direction |-> direction_to_light]))))

\* a get_light that takes the direction of a directional light for the
\* direction to it
GetLightAlongLight(light, sc, hit_point) ==
    IF light.kind = "DirectionalLight" THEN
        Let(light.direction, LAMBDA direction_to_light :
        Let(Ray(VAdd(hit_point, VScale(direction_to_light, sc.shadow_bias)),
                direction_to_light), LAMBDA shadow_ray :
        Let(Trace(sc, shadow_ray), LAMBDA shadow_intersect :
        Let(~shadow_intersect.some, LAMBDA in_light :
            [panic |-> shadow_intersect.panic,
             intensity |-> IF in_light THEN light.intensity ELSE 0,
             direction |-> direction_to_light]))))
    ELSE
        Let(Normalize(VSub(light.position, hit_point)), LAMBDA direction_to_light :
        Let(Ray(VAdd(hit_point, VScale(direction_to_light, sc.shadow_bias)),
                direction_to_light), LAMBDA shadow_ray :
        Let(Trace(sc, shadow_ray), LAMBDA shadow_intersect :
        Let(\/ ~shadow_intersect.some
            \/ Gt(shadow_intersect.distance, Magnitude(VSub(light.position, hit_point))),
            LAMBDA in_light :
            [panic |-> shadow_intersect.panic,
             intensity |-> IF in_light
                           THEN Div(light.intensity,
                                    Mul(Mul(4 * Unit, Pi),
                                        Magnitude2(VSub(light.position, hit_point))))
                           ELSE 0,
             direction |-> direction_to_light]))))

\* get_light: (light_intensity, direction_to_light), or the panic of trace
GetLight(light, sc, hit_point) ==
    IF light.kind = "DirectionalLight" THEN
        Let(VNeg(light.direction), LAMBDA direction_to_light :
        Let(Ray(VAdd(hit_point, VScale(direction_to_light, sc.shadow_bias)),
                direction_to_light), LAMBDA shadow_ray :
        Let(Trace(sc, shadow_ray), LAMBDA shadow_intersect :
        Let(~shadow_intersect.some, LAMBDA in_light :
            [panic |-> shadow_intersect.panic,
             intensity |-> IF in_light THEN light.intensity ELSE 0,
             direction |-> direction_to_light]))))
    ELSE
        Let(Normalize(VSub(light.position, hit_point)), LAMBDA direction_to_light :
        Let(Ray(VAdd(hit_point, VScale(direction_to_light, sc.shadow_bias)),
                direction_to_light), LAMBDA shadow_ray :
        Let(Trace(sc, shadow_ray), LAMBDA shadow_intersect :
        Let(\/ ~shadow_intersect.some
            \/ Gt(shadow_intersect.distance, Magnitude(VSub(light.position, hit_point))),
            LAMBDA in_light :
            [panic |-> shadow_intersect.panic,
             intensity |-> IF in_light
                           THEN Div(light.intensity,
                                    Mul(Mul(4 * Unit, Pi),
                                        Magnitude2(VSub(light.position, hit_point))))
                           ELSE 0,
             direction |-> direction_to_light]))))

Black == Color(0, 0, 0)

\* one pass of the loop over the lights in get_color
Shade(sc, ray, obj, hit_point, surface_normal, light, acc) ==
    Let(GetLight(light, sc, hit_point), LAMBDA gl :
    Let(Mul(FMax(Dot(surface_normal, gl.direction), 0), gl.intensity), LAMBDA diffuse :
    Let(VNeg(Normalize(ray.direction)), LAMBDA view_vector :
    Let(Normalize(VAdd(gl.direction, view_vector)), LAMBDA half_vector :
    Let(Mul(Mul(Powi(Dot(surface_normal, half_vector), 25), obj.kd), gl.intensity),
        LAMBDA specular :
    Let(Div(obj.albedo, Pi), LAMBDA light_reflected :
    Let(ColorScale(ColorScale(light.color, Mul(diffuse, obj.ks)), light_reflected),
        LAMBDA light_color :
        [panic |-> gl.panic,
         color |-> ColorAddScalar(ColorAdd(acc, ColorMul(obj.color, light_color)),
                                  specular)])))))))

RECURSIVE ShadeAll(_, _, _, _, _, _, _)
ShadeAll(sc, ray, obj, hit_point, surface_normal, i, acc) ==
    IF i > Len(sc.lights) THEN [panic |-> FALSE, color |-> acc]
    ELSE Let(Shade(sc, ray, obj, hit_point, surface_normal, sc.lights[i], acc), LAMBDA s :
             IF s.panic THEN s
             ELSE ShadeAll(sc, ray, obj, hit_point, surface_normal, i + 1, s.color))

\* the color get_color holds after the loop over the lights, before color.clamp()
Accumulate(sc, ray) ==
    Let(Trace(sc, ray), LAMBDA intersection :
        IF intersection.panic THEN [panic |-> TRUE, color |-> Black]
        ELSE IF ~intersection.some THEN [panic |-> FALSE, color |-> Black]
        ELSE Let(VAdd(ray.origin, VScale(ray.direction, intersection.distance)),
                 LAMBDA hit_point :
             Let(SurfaceNormal(sc.objects[intersection.object], hit_point),
                 LAMBDA surface_normal :
                 ShadeAll(sc, ray, sc.objects[intersection.object], hit_point,
                          surface_normal, 1, Black))))

\* get_color
GetColor(sc, ray) ==
    Let(Accumulate(sc, ray), LAMBDA a : [panic |-> a.panic, color |-> Clamp(a.color)])

----------------------------------------------------------------------------
(* The scenes the model renders.  The first sphere, the white lights and   *)
(* the field of view are those of main; the others are variations of them. *)

MaxDim == 2
MaxObjects == 2
MaxLights == 2
MaxClamps == 2

White == Color(Unit, Unit, Unit)

SphereWith(center, radius, col, albedo, ks, kd) ==
    [center |-> center, radius |-> radius, color |-> col,
     albedo |-> albedo, ks |-> ks, kd |-> kd]

\* albedo 0.5, ks 0.5, kd 0.05, as every sphere of main
Sphere(center, radius, col) == SphereWith(center, radius, col, 500, 500, 50)

Red == Color(Unit, 0, 400)
Green == Color(400, Unit, 400)

SphereUnit == Sphere(<<0, 0, -5 * Unit>>, Unit, Red)
SphereTwin == Sphere(<<0, 0, -5 * Unit>>, Unit, Green)
SphereZero == Sphere(<<0, 0, -5 * Unit>>, 0, Red)
SphereNeg == Sphere(<<0, 0, -5 * Unit>>, -Unit, Red)
SphereFar == Sphere(<<0, 0, -8 * Unit>>, Unit, Green)
SphereAround == Sphere(<<0, 0, 0>>, 2 * Unit, Green)

Spheres == {SphereUnit, SphereTwin, SphereZero, SphereNeg, SphereFar}

LightFront == DirectionalLight(<<0, 0, -Unit>>, White, 10 * Unit)
LightBack == DirectionalLight(<<0, 0, Unit>>, White, Unit)
LightAtHit == SphereLight(<<0, 0, -4 * Unit>>, White, 30 * Unit)
LightNear == SphereLight(<<0, 0, -2 * Unit>>, White, 30 * Unit)

Lights == {LightFront, LightBack, LightAtHit, LightNear}

\* the sequences over S of length at most n
SeqUpTo(S, n) == UNION {[1..k -> S] : k \in 0..n}

\* shadow_bias: main's 1e-13 is below the model's resolution; 1 (a thousandth)
\* stands for a small positive bias, 0 for none
Biases == {0, 1}

Scenes ==
    {NewScene(w, h, 90, objs, ls, b) :
        w \in 1..MaxDim, h \in 1..MaxDim,
        objs \in SeqUpTo(Spheres, MaxObjects), ls \in SeqUpTo(Lights, MaxLights),
        b \in Biases}

NoScene == NewScene(1, 1, 90, <<>>, <<>>, 0)
NoRgba == [called |-> FALSE, abort |-> FALSE, px |-> <<0, 0, 0, 0>>]
NoCall == [fn |-> "none", scene |-> NoScene, sphere |-> SphereUnit,
           ray |-> Ray(<<0, 0, 0>>, <<0, 0, 0>>), light |-> LightFront,
           hit_point |-> <<0, 0, 0>>, px |-> 0, py |-> 0,
           panic |-> FALSE, some |-> FALSE, distance |-> 0, object |-> 0,
           intensity |-> 0, direction |-> <<0, 0, 0>>, color |-> Black]

----------------------------------------------------------------------------
(* render: one step per pass of the inner loop *)

RenderIdle ==
    /\ scene = NoScene /\ x = 0 /\ y = 0 /\ pc = "idle"
    /\ passed = <<>> /\ puts = <<>>
ColorIdle ==
    /\ color = Black /\ orig = Black /\ clamps = 0 /\ rgba = NoRgba
CallIdle == call = NoCall

Init ==
    /\ scene \in Scenes
    /\ x = 0 /\ y = 0
    /\ pc = "loop"
    /\ passed = <<>>
    /\ puts = <<>>
    /\ ColorIdle /\ CallIdle

\* what the body of the loops of render computes for the pixel (px, py): the
\* color get_color returns for the pixel's ray (or its panic), and what to_rgba
\* makes of that color
Pixel(px, py, sc) ==
    Let(GetColor(sc, CreatePrime(px, py, sc)), LAMBDA gc :
    Let(ToRgba(gc.color), LAMBDA conv :
        [panic |-> gc.panic, color |-> gc.color, abort |-> conv.abort, px |-> conv.px]))

\* the body of the loops of render for the pixel (x, y): a panic of trace or a
\* failed assertion of to_rgba aborts the program before put_pixel; `passed`
\* logs the colors handed to to_rgba and `puts` the calls of put_pixel
RenderPixel ==
    /\ pc = "loop"
    /\ x < scene.width /\ y < scene.height
    /\ \E out \in {Pixel(x, y, scene)} :
          IF out.panic
          THEN /\ pc' = "aborted"
               /\ UNCHANGED <<x, y, passed, puts>>
          ELSE IF out.abort
          THEN /\ pc' = "aborted"
               /\ passed' = Append(passed, out.color)
               /\ UNCHANGED <<x, y, puts>>
          ELSE /\ passed' = Append(passed, out.color)
               /\ puts' = Append(puts, [x |-> x, y |-> y, px |-> out.px])
               /\ IF y + 1 < scene.height
                  THEN x' = x /\ y' = y + 1
                  ELSE x' = x + 1 /\ y' = 0
               /\ pc' = pc
    /\ UNCHANGED <<scene, color, orig, clamps, rgba, call>>

\* the loops are over: render returns the image
RenderReturn ==
    /\ pc = "loop"
    /\ x >= scene.width
    /\ pc' = "done"
    /\ UNCHANGED <<scene, x, y, passed, puts, color, orig, clamps, rgba, call>>

Next == RenderPixel \/ RenderReturn

Spec == Init /\ [][Next]_vars

----------------------------------------------------------------------------
(* Color::clamp and Color::to_rgba applied to a color *)

Channels == {-500, 0, 2, 500, 998, Unit, 1500, NaN}

Colors == {Color(r, g, b) : r \in Channels, g \in Channels, b \in Channels}

InitColor ==
    /\ RenderIdle /\ CallIdle
    /\ orig \in Colors
    /\ color = orig
    /\ clamps = 0
    /\ rgba = NoRgba

\* color.clamp()
DoClamp ==
    /\ ~rgba.called
    /\ clamps < MaxClamps
    /\ color' = Clamp(color)
    /\ clamps' = clamps + 1
    /\ UNCHANGED <<scene, x, y, pc, passed, puts, orig, rgba, call>>

\* color.to_rgba()
DoToRgba ==
    /\ ~rgba.called
    /\ \E r \in {ToRgba(color)} :
          rgba' = [called |-> TRUE, abort |-> r.abort, px |-> r.px]
    /\ UNCHANGED <<scene, x, y, pc, passed, puts, color, orig, clamps, call>>

NextColor == DoClamp \/ DoToRgba

SpecColor == InitColor /\ [][NextColor]_vars

----------------------------------------------------------------------------
(* intersect, trace, get_light and get_color applied to drawn arguments *)

ProbeSpheres == Spheres \cup {SphereAround}

Origins ==
    {<<0, 0, 0>>, <<0, 0, -4 * Unit>>, <<0, 0, -5 * Unit>>, <<0, 0, -10 * Unit>>,
     <<0, 2 * Unit, -5 * Unit>>}

Directions == {<<0, 0, -Unit>>, <<0, 0, Unit>>, <<0, Unit, 0>>, <<408, 408, -816>>}

\* the ray get_light builds for a point light that lies on the hit point
NaNRay == Ray(<<NaN, NaN, NaN>>, <<NaN, NaN, NaN>>)

Rays == {Ray(o, d) : o \in Origins, d \in Directions} \cup {NaNRay}

ProbeScenes ==
    {NewScene(1, 1, 90, objs, <<>>, b) :
        objs \in SeqUpTo(ProbeSpheres, MaxObjects), b \in Biases}

\* the scene of an axis-centred unit sphere five units ahead under one white
\* directional light of intensity 1, seen at 100 x 100 pixels
ScenarioScenes ==
    {NewScene(100, 100, 90,
              <<SphereWith(<<0, 0, -5 * Unit>>, Unit, col, al, k, 50)>>,
              <<DirectionalLight(dir, White, Unit)>>, b) :
        col \in {Red, Green, White}, al \in {500, Unit}, k \in {500, Unit},
        dir \in {<<0, 0, Unit>>, <<0, 0, -Unit>>}, b \in Biases}

ScenarioPixels == {0, 49, 50, 99}

InitCall == RenderIdle /\ ColorIdle /\ call = NoCall

CallIntersect ==
    /\ call.fn = "none"
    /\ \E sphere \in ProbeSpheres, ray \in Rays :
       \E r \in {Intersect(sphere, ray)} :
          call' = [call EXCEPT !.fn = "intersect", !.sphere = sphere, !.ray = ray,
                               !.some = r.some, !.distance = r.val]
    /\ UNCHANGED <<scene, x, y, pc, passed, puts, color, orig, clamps, rgba>>

CallTrace ==
    /\ call.fn = "none"
    /\ \E sc \in ProbeScenes, ray \in Rays :
       \E r \in {Trace(sc, ray)} :
          call' = [call EXCEPT !.fn = "trace", !.scene = sc, !.ray = ray,
                               !.panic = r.panic, !.some = r.some,
                               !.distance = r.distance, !.object = r.object]
    /\ UNCHANGED <<scene, x, y, pc, passed, puts, color, orig, clamps, rgba>>

\* get_light for a point of a scene that has an object, as get_color calls it
CallGetLight ==
    /\ call.fn = "none"
    /\ \E sc \in {p \in ProbeScenes : p.objects # <<>>}, light \in Lights,
          hit_point \in Origins :
       \E r \in {GetLight(light, sc, hit_point)} :
          call' = [call EXCEPT !.fn = "get_light", !.scene = sc, !.light = light,
                               !.hit_point = hit_point, !.panic = r.panic,
                               !.intensity = r.intensity, !.direction = r.direction]
    /\ UNCHANGED <<scene, x, y, pc, passed, puts, color, orig, clamps, rgba>>

\* get_color for the ray of a pixel, as render calls it
CallGetColor ==
    /\ call.fn = "none"
    /\ \E sc \in ScenarioScenes, px \in ScenarioPixels, py \in ScenarioPixels :
       \E r \in {GetColor(sc, CreatePrime(px, py, sc))} :
          call' = [call EXCEPT !.fn = "get_color", !.scene = sc, !.px = px, !.py = py,
                               !.ray = CreatePrime(px, py, sc),
                               !.panic = r.panic, !.color = r.color]
    /\ UNCHANGED <<scene, x, y, pc, passed, puts, color, orig, clamps, rgba>>

NextCall == CallIntersect \/ CallTrace \/ CallGetLight \/ CallGetColor

SpecCall == InitCall /\ [][NextCall]_vars

----------------------------------------------------------------------------
(* The claims about Color, under SpecColor *)

ChannelsOf(c) == {c.red, c.green, c.blue}
InUnit(ch) == Ge(ch, 0) /\ Le(ch, Unit)
OutsideUnit(ch) == Lt(ch, 0) \/ Gt(ch, Unit)

\* C2: to_rgba aborts for every color with at least one of red, green and blue
\* outside [0,1], whichever channel it is and whether it is below 0 or above 1
C2_AbortsOutsideUnit ==
    (rgba.called /\ \E ch \in ChannelsOf(color) : OutsideUnit(ch)) => rgba.abort

\* the value clamp gives a channel: 0 below 0, 1 above 1, unchanged in [0,1],
\* and a NaN channel stays NaN
Clamped(ch) ==
    IF IsNaN(ch) THEN NaN ELSE IF ch < 0 THEN 0 ELSE IF ch > Unit THEN Unit ELSE ch

\* C8 (as amended): after one clamp and after two, every channel that is not NaN
\* is 0 if it was below 0, 1 if it was above 1 and unchanged if it was in [0,1],
\* so it lies in [0,1]; a NaN channel is still NaN; the second clamp changes nothing
C8_ClampIdempotentInUnit ==
    clamps >= 1 =>
        /\ color = Color(Clamped(orig.red), Clamped(orig.green), Clamped(orig.blue))
        /\ \A ch \in ChannelsOf(color) : InUnit(ch) \/ IsNaN(ch)
        /\ \A ch \in ChannelsOf(color) : IsNaN(ch) => \E o \in ChannelsOf(orig) : IsNaN(o)

\* C8 (as claimed): after clamp, once or twice, every channel lies in [0,1]
C8_ClampAlwaysInUnit ==
    clamps >= 1 => \A ch \in ChannelsOf(color) : InUnit(ch)

\* a color with a channel above 1 and one below 0 has been clamped twice
C8_Witness ==
    /\ clamps = 2
    /\ orig.red = 1500 /\ orig.green = -500 /\ orig.blue = 500
    /\ color = Color(Unit, 0, 500)

\* C7 (as amended): for a color with all channels in [0,1], to_rgba does not
\* abort, maps each channel c to the integer part of c * 255 (the fraction is
\* dropped, never rounded up) and emits alpha 1
C7_ToRgbaTruncates ==
    (rgba.called /\ \A ch \in ChannelsOf(color) : InUnit(ch)) =>
        /\ ~rgba.abort
        /\ rgba.px = <<(color.red * 255) \div Unit, (color.green * 255) \div Unit,
                       (color.blue * 255) \div Unit, 1>>

\* C7 (as claimed): each channel c maps to round(c * 255), a fraction of one
\* half or more going to the next integer up
C7_ToRgbaRounds ==
    (rgba.called /\ \A ch \in ChannelsOf(color) : InUnit(ch)) =>
        /\ ~rgba.abort
        /\ rgba.px = <<(2 * color.red * 255 + Unit) \div (2 * Unit),
                       (2 * color.green * 255 + Unit) \div (2 * Unit),
                       (2 * color.blue * 255 + Unit) \div (2 * Unit), 1>>

\* the channel 0.5, where c * 255 = 127.5, has been converted to 127
C7_Witness ==
    /\ rgba.called /\ ~rgba.abort
    /\ color = Color(500, 998, 2)
    /\ rgba.px = <<127, 254, 0, 1>>

----------------------------------------------------------------------------
(* The claims about render, under Spec *)

Coordinates == (0..(scene.width - 1)) \X (0..(scene.height - 1))

\* C1: a run of render calls put_pixel exactly once for every coordinate of the
\* image, never for a coordinate outside it, and ends after exactly
\* width * height writes
C1_EveryPixelOnce ==
    /\ \A i \in 1..Len(puts) : <<puts[i].x, puts[i].y>> \in Coordinates
    /\ \A i, j \in 1..Len(puts) :
          (puts[i].x = puts[j].x /\ puts[i].y = puts[j].y) => i = j
    /\ pc # "loop" =>
          /\ Len(puts) = scene.width * scene.height
          /\ \A c \in Coordinates : \E i \in 1..Len(puts) : <<puts[i].x, puts[i].y>> = c

\* C3: every color render passes to to_rgba has all three channels in [0,1], and
\* no assertion of to_rgba fires: every color passed is put
C3_ConvertedInUnit ==
    /\ \A i \in 1..Len(passed) : \A ch \in ChannelsOf(passed[i]) : InUnit(ch)
    /\ Len(passed) = Len(puts)

\* C6: when every sphere of the scene has radius <= 0, render does not abort
\* and every pixel it writes is black
C6_DegenerateIsBlack ==
    (\A i \in 1..Len(scene.objects) : Le(scene.objects[i].radius, 0)) =>
        /\ pc # "aborted"
        /\ \A i \in 1..Len(puts) :
              puts[i].px[1] = 0 /\ puts[i].px[2] = 0 /\ puts[i].px[3] = 0

----------------------------------------------------------------------------
(* The claims about intersect, trace, get_light and get_color, under SpecCall *)

\* the squared distance d2 from the center to the line of the ray, and the roots
D2Of(sphere, ray) ==
    Sub(Dot(VSub(sphere.center, ray.origin), VSub(sphere.center, ray.origin)),
        Mul(Dot(VSub(sphere.center, ray.origin), ray.direction),
            Dot(VSub(sphere.center, ray.origin), ray.direction)))
ThicknessOf(sphere, ray) ==
    Sqrt(Sub(Mul(sphere.radius, sphere.radius), D2Of(sphere, ray)))
T0Of(sphere, ray) ==
    Sub(Dot(VSub(sphere.center, ray.origin), ray.direction), ThicknessOf(sphere, ray))
T1Of(sphere, ray) ==
    Add(Dot(VSub(sphere.center, ray.origin), ray.direction), ThicknessOf(sphere, ray))

\* C10: intersect returns no hit when d2 > radius^2 or when both roots are
\* negative, and the smaller root t0 in every other case, so a ray whose origin
\* is strictly inside the sphere (t0 < 0 < t1) gets a negative hit distance
C10_SmallerRootEvenNegative ==
    call.fn = "intersect" =>
        \E d2 \in {D2Of(call.sphere, call.ray)},
           t0 \in {T0Of(call.sphere, call.ray)},
           t1 \in {T1Of(call.sphere, call.ray)} :
           /\ (Gt(d2, Mul(call.sphere.radius, call.sphere.radius))
               \/ (Lt(t0, 0) /\ Lt(t1, 0))) => ~call.some
           /\ ~(Gt(d2, Mul(call.sphere.radius, call.sphere.radius))
                \/ (Lt(t0, 0) /\ Lt(t1, 0))) => (call.some /\ call.distance = t0)
           /\ (Lt(t0, 0) /\ Gt(t1, 0)) => (call.some /\ call.distance < 0)

\* a ray from the center of a sphere of radius 2 got the hit distance -2
C10_Witness ==
    /\ call.fn = "intersect"
    /\ call.sphere = SphereAround
    /\ call.ray = Ray(<<0, 0, 0>>, <<0, 0, -Unit>>)
    /\ call.some /\ call.distance = -2 * Unit

\* the objects of the scene that the ray hits, and the distance of each
HitsOf(sc, ray) == {i \in 1..Len(sc.objects) : Intersect(sc.objects[i], ray).some}
DistanceOf(sc, ray, i) == Intersect(sc.objects[i], ray).val

\* C9: trace returns no hit exactly when no object is hit; otherwise it returns
\* a collision with an object that is hit, at that object's distance, such that
\* no object is hit at a smaller distance and no earlier object of the list at
\* the same distance
C9_NearestFirst ==
    call.fn = "trace" =>
        \E hits \in {HitsOf(call.scene, call.ray)} :
           /\ ~call.panic
           /\ call.some <=> hits # {}
           /\ call.some =>
                 /\ call.object \in hits
                 /\ call.distance = DistanceOf(call.scene, call.ray, call.object)
                 /\ \A j \in hits :
                       ~Lt(DistanceOf(call.scene, call.ray, j), call.distance)
                 /\ \A j \in hits :
                       DistanceOf(call.scene, call.ray, j) = call.distance
                           => call.object <= j

\* what get_light's shadow ray hits, and the distance to the point light
ShadowOf(c) ==
    Trace(c.scene, Ray(VAdd(c.hit_point, VScale(c.direction, c.scene.shadow_bias)),
                       c.direction))
ToLight(c) == VSub(c.light.position, c.hit_point)
Falloff(c) == Div(c.light.intensity, Mul(Mul(4 * Unit, Pi), Magnitude2(ToLight(c))))

\* C4 (as amended): for a point light, get_light returns
\* intensity / (4 pi distance^2) when the shadow ray hits nothing or hits at a
\* distance strictly greater than the distance to the light, and 0 in every
\* other case: a hit at a smaller distance, at exactly that distance, or at NaN
C4_OccludedUnlessBeyond ==
    (call.fn = "get_light" /\ call.light.kind = "SphereLight" /\ ~call.panic) =>
        \E shadow \in {ShadowOf(call)} :
           /\ call.direction = Normalize(ToLight(call))
           /\ IF ~shadow.some \/ Gt(shadow.distance, Magnitude(ToLight(call)))
              THEN call.intensity = Falloff(call)
              ELSE call.intensity = 0

\* C4 (as claimed): the point is occluded only by a hit strictly nearer than the
\* light; with no hit, or a hit at an equal or greater distance, the intensity
\* is intensity / (4 pi distance^2)
C4_OccludedOnlyBelow ==
    (call.fn = "get_light" /\ call.light.kind = "SphereLight" /\ ~call.panic) =>
        \E shadow \in {ShadowOf(call)} :
           IF shadow.some /\ Lt(shadow.distance, Magnitude(ToLight(call)))
           THEN call.intensity = 0
           ELSE call.intensity = Falloff(call)

\* the shadow ray of a point light four units away hit a sphere at exactly
\* four units, and the light counted as occluded
C4_Witness ==
    /\ call.fn = "get_light" /\ call.light = LightAtHit /\ ~call.panic
    /\ call.hit_point = <<0, 0, 0>>
    /\ ShadowOf(call).some
    /\ ShadowOf(call).distance = 4 * Unit
    /\ Magnitude(ToLight(call)) = 4 * Unit
    /\ Falloff(call) > 0
    /\ call.intensity = 0

\* the scenes of the scenario whose light has direction (0, 0, 1)
LitFromBehind(sc) == sc.lights[1].direction = <<0, 0, Unit>>

\* C5 (as amended): in the scenario, the ray of pixel (50, 50) hits the sphere,
\* and get_color returns black: the direction to the light, (0, 0, -1), points
\* away from the side of the sphere the camera sees
C5_CenterPixelBlack ==
    (call.fn = "get_color" /\ LitFromBehind(call.scene) /\ call.px = 50 /\ call.py = 50) =>
        /\ Trace(call.scene, call.ray).some
        /\ ~call.panic
        /\ call.color = Black

\* C5 (as claimed): in the scenario, the ray of pixel (50, 50) hits the sphere
\* and the color get_color returns is not black
C5_CenterPixelLit ==
    (call.fn = "get_color" /\ LitFromBehind(call.scene) /\ call.px = 50 /\ call.py = 50) =>
        /\ Trace(call.scene, call.ray).some
        /\ ~call.panic
        /\ call.color # Black

\* get_color has returned black for pixel (50, 50) of the scenario, whose ray
\* hits the sphere
C5_Witness ==
    /\ call.fn = "get_color" /\ LitFromBehind(call.scene)
    /\ call.px = 50 /\ call.py = 50
    /\ call.scene.objects[1].color = White
    /\ Trace(call.scene, call.ray).some
    /\ call.color = Black

====
